---------------------------- MODULE Spec2Model ----------------------------
(***************************************************************************)
(* Model of lnkinfo (src/lnkinfo/main.go): the decoder of Windows Shell    *)
(* Link files.  One run of main over one input buffer is a behaviour: the  *)
(* state is the BinaryReader (data, pos), the position of main (pc) and    *)
(* the values main holds (header, flags, linkInfo, strings, the errors the *)
(* calls returned, what was printed).                                      *)
(*                                                                         *)
(* Numbers.  A byte is 0..255.  A uint32 is a record [hi, lo] of its two   *)
(* 16-bit halves, so that arithmetic modulo 2^32 is exact.  A uint64 is a  *)
(* triple <<a, b, c>> of base-10^7 limbs (value a*10^14 + b*10^7 + c).     *)
(* A Go string is the sequence of its bytes.  Go slices count from 0, TLA+ *)
(* sequences from 1: byte i of the buffer is data[i + 1].                  *)
(***************************************************************************)
EXTENDS Integers, Sequences, FiniteSets, TLC

VARIABLES
    data,       \* BinaryReader.data: the bytes of the file
    pos,        \* BinaryReader.pos: the cursor, a uint32
    intBits,    \* width of Go's int in the build: 32 or 64
    pc,         \* the statement of main that runs next
    header,     \* main's header (Nil until parseHeader returns one)
    flags,      \* main's flags, a uint32
    linkInfo,   \* main's linkInfo: Nil, or [map |-> the map parseLinkInfo returned]
    strings,    \* main's strings map: name -> bytes
    err,        \* main's err, as parseHeader's return set it
    errs,       \* the calls of main that returned a non-nil error
    li,         \* parseLinkInfo's locals start and size at its return
    output,     \* what main printed: "none", "parse error" or "report"
    seen,       \* the cursors at which the passes of skipExtraData's loop began
    signature,  \* the package variable lnkCLSID
    call,       \* the last call of a BinaryReader method made on its own
    vd,         \* hivehunt: the ValueData that convertValue is given
    converted,  \* hivehunt: what convertValue returned
    other       \* the variables of a second run of main, while this one runs

vars == <<data, pos, intBits, pc, header, flags, linkInfo, strings, err, errs, li, output, seen,
          signature, call, vd, converted, other>>

\* what a run of lnkinfo's main neither reads nor writes, and lnkCLSID,
\* which it only reads
outside == <<signature, call, vd, converted, other>>

\* Go's nil for a pointer or a map; a value that is there is a record too
Nil == [nil |-> TRUE]
NoErr == "ok"
ErrEOF == "unexpected EOF"
ErrSeek == "seek beyond EOF"
ErrHeaderSize == "invalid header size"
ErrCLSID == "invalid CLSID"
ErrIDList == "invalid IDList terminator"
Panic == "panic"

Half == 65536

NoCall == [op |-> "none"]
NoValue == [none |-> TRUE]
NotConverted == [kind |-> "not called"]
NoRun == [none |-> TRUE]

-----------------------------------------------------------------------------
(* uint32 arithmetic *)

U32(n) == [hi |-> n \div Half, lo |-> n % Half]

AddU32(a, b) ==
    LET l == a.lo + b.lo
        h == a.hi + b.hi + (l \div Half)
    IN  [hi |-> h % Half, lo |-> l % Half]

SubU32(a, b) ==
    LET l == a.lo - b.lo
        borrow == IF l < 0 THEN 1 ELSE 0
        h == a.hi - b.hi - borrow
    IN  [hi |-> h % Half, lo |-> l % Half]

LeU32(a, b) == a.hi < b.hi \/ (a.hi = b.hi /\ a.lo <= b.lo)

\* little-endian decoding of 2 and 4 bytes (binary.Read with binary.LittleEndian)
LE16(bs) == bs[1] + 256 * bs[2]
LE32(bs) == [hi |-> bs[3] + 256 * bs[4], lo |-> bs[1] + 256 * bs[2]]

\* The Go expression  int(u) + add > n  for a uint32 u, a small add >= 0 and a
\* length n < 2^16.  With a 64-bit int the conversion keeps the value; with a
\* 32-bit int it reinterprets the bits, so u >= 2^31 becomes negative, and
\* the sum wraps when it passes 2^31 - 1.
IntPlusGt(bits, u, add, n) ==
    IF bits = 64
    THEN u.hi > 0 \/ u.lo + add > n
    ELSE LET s == IF u.hi >= 32768 THEN (u.hi - Half) * Half + u.lo
                                   ELSE u.hi * Half + u.lo
         IN  IF s > 2147483647 - add THEN FALSE ELSE s + add > n

\* the slice expression d[a:b] is in range (otherwise the run-time panics)
SliceOK(d, a, b) == LeU32(a, b) /\ LeU32(b, U32(Len(d)))

Slice(d, a, b) == SubSeq(d, a.lo + 1, b.lo)

Zeros(n) == [i \in 1..n |-> 0]

-----------------------------------------------------------------------------
(* BinaryReader *)

\* r.read(v) with binary.Size(v) = size: the error, the cursor after the
\* call and the bytes decoded into v (v keeps its zero value on an error).
read(bits, d, p, size) ==
    IF IntPlusGt(bits, p, size, Len(d))
    THEN [err |-> ErrEOF, pos |-> p, val |-> Zeros(size)]
    ELSE IF ~SliceOK(d, p, AddU32(p, U32(size)))
         THEN [err |-> Panic, pos |-> p, val |-> Zeros(size)]
         ELSE [err |-> NoErr, pos |-> AddU32(p, U32(size)),
               val |-> Slice(d, p, AddU32(p, U32(size)))]

readBytesMoves(bits, d, p, n) ==
    IF IntPlusGt(bits, AddU32(p, n), 0, Len(d))
    THEN [err |-> ErrEOF, pos |-> AddU32(p, n), val |-> <<>>]
    ELSE IF ~SliceOK(d, p, AddU32(p, n))
         THEN [err |-> Panic, pos |-> p, val |-> <<>>]
         ELSE [err |-> NoErr, pos |-> AddU32(p, n), val |-> Slice(d, p, AddU32(p, n))]

\* r.readBytes(n), n a uint32
readBytes(bits, d, p, n) ==
    IF IntPlusGt(bits, AddU32(p, n), 0, Len(d))
    THEN [err |-> ErrEOF, pos |-> p, val |-> <<>>]
    ELSE IF ~SliceOK(d, p, AddU32(p, n))
         THEN [err |-> Panic, pos |-> p, val |-> <<>>]
         ELSE [err |-> NoErr, pos |-> AddU32(p, n), val |-> Slice(d, p, AddU32(p, n))]

\* r.seek(to)
seek(bits, d, p, to) ==
    IF IntPlusGt(bits, to, 0, Len(d))
    THEN [err |-> ErrSeek, pos |-> p]
    ELSE [err |-> NoErr, pos |-> to]

-----------------------------------------------------------------------------
(* uint64 values, as base-10^7 limbs <<a, b, c>> *)

Limb == 10000000

\* 116444736000000000, the FILETIME of 1970-01-01T00:00:00Z
EpochTicks == <<1164, 4473600, 0>>

\* 2^64 = 18446744073709551616
TwoTo64 == <<1844674, 4073709, 551616>>

\* x*m + a for a small multiplier m and a small a
MulAddU64(x, m, a) ==
    LET c == x[3] * m + a
        b == x[2] * m + (c \div Limb)
        t == x[1] * m + (b \div Limb)
    IN  <<t, b % Limb, c % Limb>>

AddU64(x, y) ==
    LET c == x[3] + y[3]
        b == x[2] + y[2] + (c \div Limb)
        t == x[1] + y[1] + (b \div Limb)
    IN  <<t, b % Limb, c % Limb>>

LeU64(x, y) ==
    \/ x[1] < y[1]
    \/ x[1] = y[1] /\ x[2] < y[2]
    \/ x[1] = y[1] /\ x[2] = y[2] /\ x[3] <= y[3]

\* x - y for x >= y
MinusU64(x, y) ==
    LET c == x[3] - y[3]
        bc == IF c < 0 THEN 1 ELSE 0
        b == x[2] - y[2] - bc
        bb == IF b < 0 THEN 1 ELSE 0
    IN  <<x[1] - y[1] - bb, b % Limb, c % Limb>>

\* the uint64 subtraction x - y of Go: modulo 2^64
SubU64(x, y) ==
    IF LeU64(y, x) THEN MinusU64(x, y) ELSE MinusU64(AddU64(x, TwoTo64), y)

\* little-endian decoding of 8 bytes, a nibble at a time from the top
RECURSIVE NibblesU64(_, _, _)
NibblesU64(bs, i, acc) ==
    IF i = 0 THEN acc
    ELSE NibblesU64(bs, i - 1,
             MulAddU64(MulAddU64(acc, 16, bs[i] \div 16), 16, bs[i] % 16))

LE64(bs) == NibblesU64(bs, 8, <<0, 0, 0>>)

\* filetimeToTime(ft): Nil, or the time.Time, held as its Unix seconds
\* <<a, b>> (value a*10^7 + b).  The quotient is below 2^63, so the
\* conversion to int64 keeps it.
filetimeToTime(ft) ==
    IF ft = <<0, 0, 0>>
    THEN Nil
    ELSE LET d == SubU64(ft, EpochTicks)
         IN  [unix |-> <<d[1], d[2]>>]

-----------------------------------------------------------------------------
(* strings *)

\* readCString(r): bytes up to the first zero byte; "" and the error when a
\* readBytes fails (the cursor stays where that read left it)
RECURSIVE readCStringFrom(_, _, _, _)
readCStringFrom(bits, d, p, out) ==
    LET b == readBytes(bits, d, p, U32(1))
    IN  IF b.err # NoErr
        THEN [err |-> b.err, pos |-> b.pos, val |-> <<>>]
        ELSE IF b.val[1] = 0
             THEN [err |-> NoErr, pos |-> b.pos, val |-> out]
             ELSE readCStringFrom(bits, d, b.pos, Append(out, b.val[1]))

readCString(bits, d, p) == readCStringFrom(bits, d, p, <<>>)

\* bytes.TrimRight(b, "\x00")
RECURSIVE TrimRight(_)
TrimRight(b) ==
    IF b # <<>> /\ b[Len(b)] = 0 THEN TrimRight(SubSeq(b, 1, Len(b) - 1)) ELSE b

\* the wide branch of readString: its result from the bytes read
WideResult(b) == TrimRight(b)

\* the narrow branch of readString: its result from the bytes read
NarrowResult(b) == b

\* readString(r, unicode)
readString(bits, d, p, unicode) ==
    LET l == read(bits, d, p, 2)
    IN  IF l.err # NoErr
        THEN [err |-> l.err, pos |-> l.pos, val |-> <<>>]
        ELSE LET n == LE16(l.val)
                 b == readBytes(bits, d, l.pos, U32(IF unicode THEN n * 2 ELSE n))
             IN  IF b.err # NoErr
                 THEN [err |-> b.err, pos |-> b.pos, val |-> <<>>]
                 ELSE [err |-> NoErr, pos |-> b.pos,
                       val |-> IF unicode THEN WideResult(b.val) ELSE NarrowResult(b.val)]

-----------------------------------------------------------------------------
(* the decoders *)

lnkCLSID == <<1, 20, 2, 0, 0, 0, 0, 0, 192, 0, 0, 0, 0, 0, 0, 70>>

HeaderSize == 76
ReservedLen == 10

\* r.read(&v) one after the other for variables of the given sizes, every
\* returned error dropped: the results in order, each read starting where
\* the one before left the cursor
RECURSIVE readAll(_, _, _, _)
readAll(bits, d, p, sizes) ==
    IF sizes = <<>> THEN <<>>
    ELSE LET r == read(bits, d, p, Head(sizes))
         IN  <<r>> \o readAll(bits, d, r.pos, Tail(sizes))

AnyPanic(rs) == \E i \in DOMAIN rs : rs[i].err = Panic

\* linkFlags, fileAttr, ctime, atime, wtime, fileSize, iconIndex, showCmd, hotKey
HeaderFieldSizes == <<4, 4, 8, 8, 8, 4, 4, 4, 2>>

HeaderEndShort(p) == AddU32(p, U32(ReservedLen - 2))

\* the cursor after parseHeader's unchecked reads and the 10 reserved bytes
HeaderEnd(p) == AddU32(p, U32(ReservedLen))

HeaderSizeOKLowByte(v) == v.lo % 256 = HeaderSize

\* the check of the size field in parseHeader
HeaderSizeOK(v) == v = U32(HeaderSize)

\* the check of the class identifier in parseHeader, against the package
\* variable
ClsidOK(b) == b = signature

\* parseHeader(r): (h, linkFlags, err) and the cursor it leaves
parseHeader(bits, d, p) ==
    LET hs == read(bits, d, p, 4)
        cl == readBytes(bits, d, hs.pos, U32(16))
        fs == readAll(bits, d, cl.pos, HeaderFieldSizes)
        fail(e, q) == [err |-> e, pos |-> q, h |-> Nil, flags |-> U32(0)]
    IN  IF hs.err # NoErr THEN fail(hs.err, hs.pos)
        ELSE IF cl.err # NoErr THEN fail(cl.err, cl.pos)
        ELSE IF ~HeaderSizeOK(LE32(hs.val)) THEN fail(ErrHeaderSize, cl.pos)
        ELSE IF ~ClsidOK(cl.val) THEN fail(ErrCLSID, cl.pos)
        ELSE IF AnyPanic(fs) THEN fail(Panic, cl.pos)
        ELSE [err |-> NoErr,
              pos |-> HeaderEnd(fs[9].pos),
              h |-> [CreationTime |-> filetimeToTime(LE64(fs[3].val)),
                     AccessTime |-> filetimeToTime(LE64(fs[4].val)),
                     WriteTime |-> filetimeToTime(LE64(fs[5].val)),
                     FileSize |-> LE32(fs[6].val),
                     IconIndex |-> LE32(fs[7].val),
                     ShowCommand |-> LE32(fs[8].val),
                     HotKey |-> LE16(fs[9].val),
                     FileAttributes |-> LE32(fs[2].val)],
              flags |-> LE32(fs[1].val)]

\* bytes.HasSuffix(b, []byte{0x00, 0x00})
HasZeroSuffix(b) == Len(b) >= 2 /\ b[Len(b) - 1] = 0 /\ b[Len(b)] = 0

\* parseLinkTargetIDList(r): err and the cursor it leaves
parseLinkTargetIDList(bits, d, p) ==
    LET sz == read(bits, d, p, 2)
        b == readBytes(bits, d, sz.pos, U32(LE16(sz.val)))
    IN  IF sz.err # NoErr THEN [err |-> sz.err, pos |-> sz.pos]
        ELSE IF b.err # NoErr THEN [err |-> b.err, pos |-> b.pos]
        ELSE IF ~HasZeroSuffix(b.val) THEN [err |-> ErrIDList, pos |-> b.pos]
        ELSE [err |-> NoErr, pos |-> b.pos]

\* size, headerSize, flags, volOff, localOff, netOff, commonOff
LinkInfoFieldSizes == <<4, 4, 4, 4, 4, 4, 4>>

\* the map parseLinkInfo returns: a function from the keys it set
LinkInfoMap(hasLocal, local, hasCommon, common) ==
    [k \in (IF hasLocal THEN {"LocalBasePath"} ELSE {}) \cup
           (IF hasCommon THEN {"CommonPathSuffix"} ELSE {}) |->
        IF k = "LocalBasePath" THEN local ELSE common]

\* parseLinkInfo(r): (out, err), the cursor it leaves, and its locals start
\* and size.  The errors of its reads and seeks are dropped; a seek that
\* fails leaves the cursor where it was.
parseLinkInfo(bits, d, p) ==
    LET fs == readAll(bits, d, p, LinkInfoFieldSizes)
        size == LE32(fs[1].val)
        localOff == LE32(fs[5].val)
        commonOff == LE32(fs[7].val)
        p0 == fs[7].pos
        hasLocal == localOff # U32(0)
        s1 == seek(bits, d, p0, AddU32(p, localOff))
        c1 == readCString(bits, d, s1.pos)
        p1 == IF hasLocal THEN c1.pos ELSE p0
        hasCommon == commonOff # U32(0)
        s2 == seek(bits, d, p1, AddU32(p, commonOff))
        c2 == readCString(bits, d, s2.pos)
        p2 == IF hasCommon THEN c2.pos ELSE p1
        s3 == seek(bits, d, p2, AddU32(p, size))
        panics == \/ AnyPanic(fs)
                  \/ hasLocal /\ c1.err = Panic
                  \/ hasCommon /\ c2.err = Panic
    IN  IF panics
        THEN [err |-> Panic, pos |-> p, out |-> Nil, start |-> p, size |-> size]
        ELSE [err |-> NoErr, pos |-> s3.pos,
              out |-> [map |-> LinkInfoMap(hasLocal, c1.val, hasCommon, c2.val)],
              start |-> p, size |-> size]

\* one pass of the loop of skipExtraData(r): what it does ("return" with
\* err, or "loop" again) and the cursor it leaves
skipExtraDataPass(bits, d, p) ==
    LET sz == read(bits, d, p, 4)
        size == LE32(sz.val)
    IN  IF sz.err # NoErr THEN [next |-> "return", err |-> sz.err, pos |-> sz.pos]
        ELSE IF size = U32(0) THEN [next |-> "return", err |-> NoErr, pos |-> sz.pos]
        ELSE [next |-> "loop", err |-> NoErr,
              pos |-> AddU32(sz.pos, SubU32(size, U32(4)))]

-----------------------------------------------------------------------------
(* main *)

BitAbove(f, k) == (f.lo \div (2 ^ (k + 1))) % 2 = 1

\* flags & (1 << k) != 0, for k < 16
Bit(f, k) == (f.lo \div (2 ^ k)) % 2 = 1

NoLinkInfo == [start |-> U32(0), size |-> U32(0)]

StringNames == <<"Name", "RelativePath", "WorkingDirectory", "Arguments", "IconLocation">>

AfterStringSame(i) == StringNames[i]

\* the statement after the i-th string field
AfterString(i) == IF i < Len(StringNames) THEN StringNames[i + 1] ELSE "ExtraData"

\* m[k] = v on a Go map held as a function
MapSet(m, k, v) == [x \in DOMAIN m \cup {k} |-> IF x = k THEN v ELSE m[x]]

Failed(e, stage) == IF e # NoErr THEN errs \cup {stage} ELSE errs

\* header, flags, err := parseHeader(r); if err != nil { print; return }
ParseHeaderStep ==
    /\ pc = "Header"
    /\ LET r == parseHeader(intBits, data, pos)
       IN  /\ pos' = r.pos
           /\ err' = r.err
           /\ errs' = Failed(r.err, "Header")
           /\ IF r.err = NoErr
              THEN /\ header' = r.h
                   /\ flags' = r.flags
                   /\ pc' = "IDList"
                   /\ output' = output
              ELSE /\ UNCHANGED <<header, flags>>
                   /\ pc' = IF r.err = Panic THEN "Panic" ELSE "Error"
                   /\ output' = IF r.err = Panic THEN output ELSE "parse error"
    /\ UNCHANGED outside
    /\ UNCHANGED <<data, intBits, linkInfo, strings, li, seen>>

\* if flags&0x01 != 0 { parseLinkTargetIDList(r) }
IDListStep ==
    /\ pc = "IDList"
    /\ IF Bit(flags, 0)
       THEN LET r == parseLinkTargetIDList(intBits, data, pos)
            IN  /\ pos' = r.pos
                /\ errs' = Failed(r.err, "IDList")
                /\ pc' = IF r.err = Panic THEN "Panic" ELSE "LinkInfo"
       ELSE /\ pc' = "LinkInfo"
            /\ UNCHANGED <<pos, errs>>
    /\ UNCHANGED outside
    /\ UNCHANGED <<data, intBits, header, flags, linkInfo, strings, err, li, output, seen>>

\* if flags&0x02 != 0 { linkInfo, _ = parseLinkInfo(r) }
LinkInfoStep ==
    /\ pc = "LinkInfo"
    /\ IF Bit(flags, 1)
       THEN LET r == parseLinkInfo(intBits, data, pos)
            IN  /\ pos' = r.pos
                /\ errs' = Failed(r.err, "LinkInfo")
                /\ linkInfo' = r.out
                /\ li' = [start |-> r.start, size |-> r.size]
                /\ pc' = IF r.err = Panic THEN "Panic" ELSE "Name"
       ELSE /\ pc' = "Name"
            /\ UNCHANGED <<pos, errs, linkInfo, li>>
    /\ UNCHANGED outside
    /\ UNCHANGED <<data, intBits, header, flags, strings, err, output, seen>>

\* if flags&(0x04 << (i-1)) != 0 { strings[name], _ = readString(r, unicode) }
StringStep(i) ==
    /\ pc = StringNames[i]
    /\ IF Bit(flags, i + 1)
       THEN LET r == readString(intBits, data, pos, Bit(flags, 7))
            IN  /\ pos' = r.pos
                /\ errs' = Failed(r.err, StringNames[i])
                /\ IF r.err = Panic
                   THEN pc' = "Panic" /\ strings' = strings
                   ELSE pc' = AfterString(i) /\ strings' = MapSet(strings, StringNames[i], r.val)
       ELSE /\ pc' = AfterString(i)
            /\ UNCHANGED <<pos, errs, strings>>
    /\ UNCHANGED outside
    /\ UNCHANGED <<data, intBits, header, flags, linkInfo, err, li, output, seen>>

\* skipExtraData(r), one pass of its loop at a time
SkipExtraDataStep ==
    /\ pc = "ExtraData"
    /\ LET r == skipExtraDataPass(intBits, data, pos)
       IN  /\ pos' = r.pos
           /\ errs' = Failed(r.err, "ExtraData")
           /\ pc' = IF r.err = Panic THEN "Panic"
                    ELSE IF r.next = "loop" THEN "ExtraData" ELSE "Report"
    /\ seen' = seen \cup {pos}
    /\ UNCHANGED outside
    /\ UNCHANGED <<data, intBits, header, flags, linkInfo, strings, err, li, output>>

\* the printing of the report, which ends main
ReportStep ==
    /\ pc = "Report"
    /\ output' = "report"
    /\ pc' = "Done"
    /\ UNCHANGED outside
    /\ UNCHANGED <<data, pos, intBits, header, flags, linkInfo, strings, err, errs, li, seen>>

-----------------------------------------------------------------------------
(* the input files *)

\* the longest run of trailing chunks in an input
MaxChunks == 2

Bytes32(u) == <<u.lo % 256, u.lo \div 256, u.hi % 256, u.hi \div 256>>

\* FILETIME values as their 8 bytes: 0, 1, the epoch - 1, the epoch, the
\* epoch + 10^7 - 1, the epoch + 10^7, a date in 2024, 2^64 - 1
TimeMenu ==
    { <<0, 0, 0, 0, 0, 0, 0, 0>>,
      <<1, 0, 0, 0, 0, 0, 0, 0>>,
      <<255, 127, 62, 213, 222, 177, 157, 1>>,
      <<0, 128, 62, 213, 222, 177, 157, 1>>,
      <<127, 22, 215, 213, 222, 177, 157, 1>>,
      <<128, 22, 215, 213, 222, 177, 157, 1>>,
      <<0, 192, 131, 237, 138, 73, 218, 1>>,
      <<255, 255, 255, 255, 255, 255, 255, 255>> }

SomeTime == <<0, 192, 131, 237, 138, 73, 218, 1>>

\* the 76 bytes of a header
HeaderBytes(sizeField, clsid, flagByte, ctime, atime, wtime) ==
    Bytes32(U32(sizeField)) \o clsid \o <<flagByte, 0, 0, 0>> \o <<32, 0, 0, 0>>
    \o ctime \o atime \o wtime
    \o <<0, 16, 0, 0>> \o <<255, 255, 255, 255>> \o <<1, 0, 0, 0>> \o <<65, 3>>
    \o Zeros(ReservedLen)

ValidHeader(flagByte) ==
    HeaderBytes(HeaderSize, lnkCLSID, flagByte, SomeTime, Zeros(8), SomeTime)

BadCLSID == <<1, 20, 2, 0, 0, 0, 0, 0, 192, 0, 0, 0, 0, 0, 0, 71>>

\* ID lists: none, an empty list, a list with a bad terminator, a size of 1
PreMenu == { <<>>, <<2, 0, 0, 0>>, <<2, 0, 1, 1>>, <<1, 0, 0>> }

\* a LinkInfo block: its seven fields, then "C:" at offset 28 and "x" at 31
LinkInfoBytes(size, localOff, commonOff) ==
    Bytes32(size) \o Bytes32(U32(28)) \o Bytes32(U32(1)) \o Bytes32(U32(0))
    \o Bytes32(localOff) \o Bytes32(U32(0)) \o Bytes32(commonOff)
    \o <<67, 58, 0, 120, 0>>

LIMenu ==
    { <<>>,
      LinkInfoBytes(U32(33), U32(28), U32(31)),
      LinkInfoBytes(U32(33), U32(0), U32(31)),
      LinkInfoBytes(U32(33), U32(28), U32(0)),
      LinkInfoBytes(U32(33), U32(0), U32(0)),
      LinkInfoBytes(U32(16), U32(28), U32(0)),
      LinkInfoBytes(U32(4096), U32(28), U32(31)),
      LinkInfoBytes(U32(33), U32(512), U32(0)),
      LinkInfoBytes([hi |-> 65535, lo |-> 65520], U32(0), U32(0)),
      LinkInfoBytes(U32(33), [hi |-> 32768, lo |-> 0], U32(0)),
      SubSeq(LinkInfoBytes(U32(33), U32(28), U32(0)), 1, 30) }

\* trailing chunks: a zero word, block sizes 4, 1, 2^32 - 4 and 2^31, the
\* wide string of length 3 "AB", the narrow string of length 2 "A\0"
ChunkMenu ==
    { <<0, 0, 0, 0>>, <<4, 0, 0, 0>>, <<1, 0, 0, 0>>, <<252, 255, 255, 255>>,
      <<0, 0, 0, 128>>, <<3, 0, 65, 0, 66, 0, 0, 0>>, <<2, 0, 65, 0>> }

RECURSIVE ChunkRuns(_)
ChunkRuns(n) ==
    IF n = 0 THEN { <<>> }
    ELSE LET shorter == ChunkRuns(n - 1)
         IN  shorter \cup { r \o c : r \in shorter, c \in ChunkMenu }

\* headers with every choice of leading sections
SectionInputs ==
    { ValidHeader(f) \o pre \o l \o post :
        f \in {0, 1, 2, 3}, pre \in PreMenu, l \in LIMenu,
        post \in { <<>>, <<0, 0, 0, 0>> } }

\* headers followed by string fields and extra data
StringFlagMenu == {0, 4, 132, 8, 16, 32, 64, 12, 140, 124, 252}

TrailerInputs ==
    { ValidHeader(f) \o post : f \in StringFlagMenu, post \in ChunkRuns(MaxChunks) }

\* files with every section
FullInputs ==
    { ValidHeader(f) \o pre \o l \o post :
        f \in {7, 135, 255},
        pre \in { <<2, 0, 0, 0>>, <<2, 0, 1, 1>> },
        l \in { LinkInfoBytes(U32(33), U32(28), U32(31)),
                LinkInfoBytes(U32(16), U32(28), U32(0)),
                LinkInfoBytes(U32(4096), U32(28), U32(31)) },
        post \in ChunkRuns(MaxChunks) }

\* headers with a wrong size field or class identifier, and files cut short
TruncLens == {0, 3, 4, 10, 19, 20, 23, 24, 30, 40, 66, 75, 76, 78, 80}

Prefix(b, n) == SubSeq(b, 1, IF n < Len(b) THEN n ELSE Len(b))

CutInputs ==
    { Prefix(HeaderBytes(sz, c, f, SomeTime, SomeTime, Zeros(8)) \o <<0, 0, 0, 0>>, n) :
        sz \in {HeaderSize, 77, 332}, c \in {lnkCLSID, BadCLSID},
        f \in {0, 4}, n \in TruncLens }

\* headers with every pair of time stamps
TimeInputs ==
    { HeaderBytes(HeaderSize, lnkCLSID, 0, c, a, SomeTime) \o <<0, 0, 0, 0>> :
        c \in TimeMenu, a \in TimeMenu }

Inputs == SectionInputs \cup TrailerInputs \cup FullInputs \cup CutInputs \cup TimeInputs

-----------------------------------------------------------------------------
(* the run *)

\* r := NewBinaryReader(data), with main's variables at their zero values
Init ==
    /\ data \in Inputs
    /\ intBits \in {32, 64}
    /\ pos = U32(0)
    /\ pc = "Header"
    /\ header = Nil
    /\ flags = U32(0)
    /\ linkInfo = Nil
    /\ strings = <<>>
    /\ err = NoErr
    /\ errs = {}
    /\ li = NoLinkInfo
    /\ output = "none"
    /\ seen = {}
    /\ signature = lnkCLSID
    /\ call = NoCall
    /\ vd = NoValue
    /\ converted = NotConverted
    /\ other = NoRun

Next ==
    \/ ParseHeaderStep
    \/ IDListStep
    \/ LinkInfoStep
    \/ \E i \in 1..Len(StringNames) : StringStep(i)
    \/ SkipExtraDataStep
    \/ ReportStep

Spec == Init /\ [][Next]_vars

-----------------------------------------------------------------------------
(* what the file holds, read from its bytes *)

DataLen == Len(data)

\* the little-endian 32-bit word at byte offset off of the file
WordAt(off) == LE32(SubSeq(data, off + 1, off + 4))

FileSizeFieldBad == DataLen >= 4 /\ WordAt(0) # U32(76)

FileClsidBad ==
    \E i \in 1..16 : 4 + i <= DataLen /\ data[4 + i] # lnkCLSID[i]

\* bit k of the flags field of the file (clear when the field is cut off)
FileFlag(k) == DataLen >= 24 /\ (data[21] \div (2 ^ k)) % 2 = 1

-----------------------------------------------------------------------------
(* claims *)

\* C1: in every reachable state of a decode the cursor is at most the
\* buffer length.
C1_CursorWithinBuffer == LeU32(pos, U32(DataLen))

\* C2: decoding is all-or-nothing: once a decode step has returned an
\* error the run is in its terminal error state (or has crashed) and no
\* report is printed; a report is printed only when no step failed.
C2_AllOrNothing ==
    /\ errs # {} => pc \in {"Error", "Panic"}
    /\ output = "report" => errs = {}

\* C3: for every input buffer the decode terminates: skipExtraData never
\* loops forever.  The loop reads nothing but the buffer, which never
\* changes, and the cursor, so a pass that begins at a cursor where an
\* earlier pass began repeats that pass and all after it without end.
C3_NoPassRepeats == ~(pc = "ExtraData" /\ pos \in seen)

\* C4: a header whose size field differs from 0x4C or whose class
\* identifier differs from the signature is never accepted: parseHeader
\* returns an error, no header and no flags, also when the file is shorter
\* than the 20 bytes of both fields; when both fields are there the error is
\* InvalidHeaderSize for a wrong size and InvalidClassID for a wrong class
\* identifier behind a right size.
C4_BadHeaderRejected ==
    (pc # "Header" /\ (FileSizeFieldBad \/ FileClsidBad)) =>
        /\ pc = "Error"
        /\ header = Nil
        /\ flags = U32(0)
        /\ output = "parse error"
        /\ err \in {ErrEOF, ErrHeaderSize, ErrCLSID}
        /\ DataLen >= 20 /\ FileSizeFieldBad => err = ErrHeaderSize
        /\ DataLen >= 20 /\ ~FileSizeFieldBad => err = ErrCLSID
        /\ DataLen < 20 => err = ErrEOF

C4_Witness == pc = "Error" /\ err = ErrCLSID /\ DataLen = 80 /\ ~FileSizeFieldBad

\* C5: in skipExtraData a block size of 1, 2 or 3 fails: the pass that
\* reads it returns an error and the loop does not go on.
C5_SmallBlockFails ==
    [][ (/\ pc = "ExtraData"
         /\ pos.hi = 0
         /\ pos.lo + 4 <= DataLen
         /\ WordAt(pos.lo) \in {U32(1), U32(2), U32(3)})
        => ("ExtraData" \in errs' /\ pc' # "ExtraData") ]_vars

\* C6: whenever parseLinkInfo returns without error, the cursor equals
\* start + size.
C6_CursorAtBlockEnd ==
    (pc = "Name" /\ Bit(flags, 1) /\ "LinkInfo" \notin errs) =>
        pos = AddU32(li.start, li.size)

\* the UTF-8 bytes of a UTF-16 code unit outside the surrogate range
Utf8(u) ==
    IF u < 128 THEN <<u>>
    ELSE IF u < 2048 THEN <<192 + (u \div 64), 128 + (u % 64)>>
    ELSE <<224 + (u \div 4096), 128 + ((u \div 64) % 64), 128 + (u % 64)>>

\* the string that n UTF-16LE code units decode to
RECURSIVE Utf16Decode(_, _)
Utf16Decode(b, n) ==
    IF n = 0 THEN <<>>
    ELSE Utf16Decode(b, n - 1) \o Utf8(b[2 * n - 1] + 256 * b[2 * n])

\* b without its trailing zero bytes
StripNul(b) ==
    LET keep == { i \in 1..Len(b) : b[i] # 0 }
        last == IF keep = {} THEN 0 ELSE CHOOSE i \in keep : \A j \in keep : j <= i
    IN  SubSeq(b, 1, last)

\* the content of the string field at byte offset off: its n characters
\* decoded, trailing NULs stripped
FieldString(off, wide) ==
    LET n == LE16(SubSeq(data, off + 1, off + 2))
        body == SubSeq(data, off + 3, off + 2 + (IF wide THEN 2 * n ELSE n))
    IN  IF wide THEN StripNul(Utf16Decode(body, n)) ELSE StripNul(body)

\* C7: a string field that was read holds the field's content with the
\* trailing NUL padding stripped, the wide form decoded from UTF-16LE.
\* (Stated for Name in a file with neither ID list nor link info, where the
\* field starts right after the header.)
C7_StringDecoded ==
    (/\ "Name" \in DOMAIN strings
     /\ "Name" \notin errs
     /\ ~Bit(flags, 0)
     /\ ~Bit(flags, 1))
    => strings["Name"] = FieldString(HeaderSize, Bit(flags, 7))

\* t is the time of tick count ticks: absent for 0, else the instant whose
\* Unix seconds q satisfy  epoch + q*10^7 <= ticks < epoch + (q+1)*10^7
TimeOfTicks(t, ticks) ==
    IF ticks = <<0, 0, 0>>
    THEN t = Nil
    ELSE /\ t # Nil
         /\ LET base == AddU64(EpochTicks, <<t.unix[1], t.unix[2], 0>>)
            IN  /\ LeU64(base, ticks)
                /\ ~LeU64(AddU64(base, <<0, 1, 0>>), ticks)

\* C8: filetimeToTime gives no time exactly for a tick count of zero, and
\* for every other count the instant (ticks - 116444736000000000) / 10^7
\* seconds from 1970-01-01T00:00:00Z.
C8_TimeOfTicks ==
    (header # Nil /\ DataLen >= HeaderSize) =>
        /\ TimeOfTicks(header.CreationTime, LE64(SubSeq(data, 29, 36)))
        /\ TimeOfTicks(header.AccessTime, LE64(SubSeq(data, 37, 44)))
        /\ TimeOfTicks(header.WriteTime, LE64(SubSeq(data, 45, 52)))

\* a valid header with flags 0, then a zero-size extra-data block
C9_Input ==
    /\ DataLen >= 80
    /\ ~FileSizeFieldBad
    /\ ~FileClsidBad
    /\ WordAt(20) = U32(0)
    /\ WordAt(76) = U32(0)

\* C9: a valid 76-byte header with flags 0 followed by a zero-size
\* extra-data block decodes: the run goes on to Done without an error, and
\* there the cursor is 80, the header is filled in from the file, there is
\* no link info and no string field.
C9_MinimalFileDecodes ==
    C9_Input =>
        /\ pc \notin {"Error", "Panic"}
        /\ errs = {}
        /\ pc \in {"Report", "Done"} => pos = U32(80)
        /\ pc = "Done" =>
            /\ output = "report"
            /\ header # Nil
            /\ header.FileAttributes = WordAt(24)
            /\ header.FileSize = WordAt(52)
            /\ header.ShowCommand = WordAt(60)
            /\ header.HotKey = data[65] + 256 * data[66]
            /\ linkInfo = Nil
            /\ strings = <<>>

C9_Witness == C9_Input /\ pc = "Done" /\ DataLen = 80

\* C10: the flag bits of the header alone decide what is decoded: a step
\* whose bit is clear leaves the cursor and the results alone, link info
\* is there only with bit1 and each string field only with its bit.
C10_FlagsGate ==
    [][ /\ (pc = "IDList" /\ ~FileFlag(0)) => (pos' = pos /\ errs' = errs)
        /\ (pc = "LinkInfo" /\ ~FileFlag(1)) =>
               (pos' = pos /\ errs' = errs /\ linkInfo' = linkInfo)
        /\ \A i \in 1..Len(StringNames) :
               /\ (pc = StringNames[i] /\ ~FileFlag(i + 1)) =>
                      (pos' = pos /\ errs' = errs /\ strings' = strings)
               /\ (pc = StringNames[i] /\ FileFlag(i + 1) /\ pc' # "Panic") =>
                      StringNames[i] \in DOMAIN strings'
               /\ StringNames[i] \in DOMAIN strings' => FileFlag(i + 1)
        /\ linkInfo' # Nil => FileFlag(1) ]_vars

C10_Witness ==
    /\ pc = "Done"
    /\ DOMAIN strings = {"Name", "RelativePath"}
    /\ linkInfo = Nil
    /\ DataLen > 80
    /\ ~FileFlag(0) /\ ~FileFlag(1) /\ ~FileFlag(4)

\* the 16-bit little-endian value at byte offset off of the file
ShortAt(off) == data[off + 1] + 256 * data[off + 2]

\* C11: with bit0 set the ID list step reads a 16-bit size and that many
\* bytes; it succeeds, 2 + size bytes on, only if the last two of them are
\* zero, and otherwise it fails and the failure ends the decode.
C11_IDListChecked ==
    [][ (pc = "IDList" /\ FileFlag(0) /\ pos.hi = 0) =>
        LET sizeRead == pos.lo + 2 <= DataLen
            n == ShortAt(pos.lo)
            bodyRead == sizeRead /\ pos.lo + 2 + n <= DataLen
            zeroEnd == /\ n >= 2
                       /\ data[pos.lo + 2 + n - 1] = 0
                       /\ data[pos.lo + 2 + n] = 0
        IN  IF bodyRead /\ zeroEnd
            THEN /\ pos' = U32(pos.lo + 2 + n)
                 /\ "IDList" \notin errs'
                 /\ pc' = "LinkInfo"
            ELSE /\ "IDList" \in errs'
                 /\ pc' = "Error" ]_vars

\* C12: a string field that is decoded leaves the cursor 2 + n (narrow) or
\* 2 + 2n (wide) bytes past its start; a field that cannot be read whole
\* ends the decode, so that no later field is read from inside it.
C12_StringFieldConsumed ==
    [][ \A i \in 1..Len(StringNames) :
        (pc = StringNames[i] /\ FileFlag(i + 1) /\ pos.hi = 0) =>
        LET sizeRead == pos.lo + 2 <= DataLen
            n == ShortAt(pos.lo)
            width == IF FileFlag(7) THEN 2 * n ELSE n
            bodyRead == sizeRead /\ pos.lo + 2 + width <= DataLen
        IN  IF bodyRead
            THEN pos' = U32(pos.lo + 2 + width) /\ pc' = AfterString(i)
            ELSE pc' = "Error" ]_vars

\* C13: a header with the right size field and class identifier in a file
\* of fewer than 76 bytes is refused with UnexpectedEOF: no header, no flags.
C13_ShortHeaderFails ==
    (/\ pc # "Header"
     /\ DataLen >= 20
     /\ DataLen < HeaderSize
     /\ ~FileSizeFieldBad
     /\ ~FileClsidBad)
    => (pc = "Error" /\ err = ErrEOF /\ header = Nil /\ flags = U32(0))

\* there is a zero byte at or after byte offset off of the file
TerminatedAt(off) == \E j \in (off + 1)..DataLen : data[j] = 0

\* the bytes from byte offset off up to the first zero byte
StringAt(off) ==
    LET end == CHOOSE j \in (off + 1)..DataLen :
                   data[j] = 0 /\ \A k \in (off + 1)..(j - 1) : data[k] # 0
    IN  SubSeq(data, off + 1, end - 1)

\* the entry key of the link info is there only with a non-zero offset
\* field (at byte at of the block), and is the string at start + offset
PathFromOffset(key, at) ==
    key \in DOMAIN linkInfo.map =>
        LET off == WordAt(li.start.lo + at)
            to == AddU32(li.start, off)
        IN  /\ off # U32(0)
            /\ to.hi = 0
            /\ TerminatedAt(to.lo)
            /\ linkInfo.map[key] = StringAt(to.lo)

\* C14: LocalBasePath and CommonPathSuffix are in the result only if their
\* offset is non-zero, and then are the bytes from start + offset up to the
\* first zero byte, never a string from elsewhere or an empty placeholder.
C14_PathsFromOffsets ==
    (linkInfo # Nil /\ li.start.hi = 0 /\ li.start.lo + 28 <= DataLen) =>
        /\ PathFromOffset("LocalBasePath", 16)
        /\ PathFromOffset("CommonPathSuffix", 24)

\* the place of a statement of main in the order of the stages
StageRank(s) ==
    CASE s = "Header" -> 1
      [] s = "IDList" -> 2
      [] s = "LinkInfo" -> 3
      [] s = "Name" -> 4
      [] s = "RelativePath" -> 5
      [] s = "WorkingDirectory" -> 6
      [] s = "Arguments" -> 7
      [] s = "IconLocation" -> 8
      [] s = "ExtraData" -> 9
      [] s = "Report" -> 10
      [] OTHER -> 11

\* C17: the stages of a run come in the fixed order Header, IDList,
\* LinkInfo, Name, RelativePath, WorkingDirectory, Arguments, IconLocation,
\* ExtraData, then the end: a step goes to a later stage, or is one more
\* pass of the extra-data loop, and never back.
C17_StagesInOrder ==
    [][ \/ StageRank(pc') > StageRank(pc)
        \/ pc = "ExtraData" /\ pc' = "ExtraData" ]_vars

C17_Witness == pc = "Done" /\ Cardinality(DOMAIN strings) = 5 /\ FileFlag(0) /\ FileFlag(1)

-----------------------------------------------------------------------------
(* the BinaryReader on its own: its methods called in any order on a      *)
(* reader over a short buffer, with the lengths and positions the decoders *)
(* can hand them, and the cursor moved as the decoders move it             *)

\* the longest buffer of a reader driven on its own
MaxBuf == 8

ReaderBuffers == { [i \in 1..n |-> (37 * i) % 256] : n \in 0..MaxBuf }

\* binary.Size of the variables the decoders read: uint16, uint32, uint64
ReadSizes == {2, 4, 8}

\* lengths for readBytes
LengthMenu ==
    { U32(0), U32(1), U32(3), U32(16),
      [hi |-> 32768, lo |-> 0], [hi |-> 65535, lo |-> 65534] }

\* positions for seek
SeekMenu ==
    { U32(0), U32(2), U32(5), U32(MaxBuf), U32(MaxBuf + 1), U32(70000),
      [hi |-> 32768, lo |-> 0], [hi |-> 65535, lo |-> 65535] }

\* amounts of the unchecked r.pos += n of parseHeader and skipExtraData
SkipMenu == { U32(10), [hi |-> 32768, lo |-> 0], [hi |-> 65535, lo |-> 65533] }

notReader == <<header, flags, linkInfo, strings, err, errs, li, output, seen,
               signature, vd, converted, other>>

Called(op, n, r) ==
    /\ call' = [op |-> op, before |-> pos, n |-> n, err |-> r.err, val |-> r.val]
    /\ pos' = r.pos
    /\ pc' = IF r.err = Panic THEN "Panic" ELSE "Calls"
    /\ UNCHANGED <<data, intBits>>
    /\ UNCHANGED notReader

\* r.read(&v)
CallRead(size) ==
    /\ pc = "Calls"
    /\ Called("read", U32(size), read(intBits, data, pos, size))

\* r.readBytes(n)
CallReadBytes(n) ==
    /\ pc = "Calls"
    /\ Called("readBytes", n, readBytes(intBits, data, pos, n))

\* r.seek(to)
CallSeek(to) ==
    /\ pc = "Calls"
    /\ LET r == seek(intBits, data, pos, to)
       IN  Called("seek", to, [err |-> r.err, pos |-> r.pos, val |-> <<>>])

\* r.pos += n, which the decoders do only with the cursor inside the buffer
CallSkip(n) ==
    /\ pc = "Calls"
    /\ LeU32(pos, U32(Len(data)))
    /\ Called("skip", n, [err |-> NoErr, pos |-> AddU32(pos, n), val |-> <<>>])

ReaderInit ==
    /\ data \in ReaderBuffers
    /\ intBits \in {32, 64}
    /\ pos = U32(0)
    /\ pc = "Calls"
    /\ call = NoCall
    /\ header = Nil
    /\ flags = U32(0)
    /\ linkInfo = Nil
    /\ strings = <<>>
    /\ err = NoErr
    /\ errs = {}
    /\ li = NoLinkInfo
    /\ output = "none"
    /\ seen = {}
    /\ signature = lnkCLSID
    /\ vd = NoValue
    /\ converted = NotConverted
    /\ other = NoRun

ReaderNext ==
    \/ \E size \in ReadSizes : CallRead(size)
    \/ \E n \in LengthMenu : CallReadBytes(n)
    \/ \E to \in SeekMenu : CallSeek(to)
    \/ \E n \in SkipMenu : CallSkip(n)

ReaderSpec == ReaderInit /\ [][ReaderNext]_vars

\* C15: read and readBytes of n bytes at cursor pos succeed if and only if
\* pos + n, computed without wraparound, is at most the buffer length; then
\* they return the bytes [pos, pos + n) and leave the cursor at pos + n;
\* otherwise they fail with UnexpectedEOF and never crash.
C15_ReadContract ==
    call.op \in {"read", "readBytes"} =>
        LET fits == /\ call.before.hi = 0
                    /\ call.n.hi = 0
                    /\ call.before.lo + call.n.lo <= DataLen
        IN  IF fits
            THEN /\ call.err = NoErr
                 /\ call.val = SubSeq(data, call.before.lo + 1, call.before.lo + call.n.lo)
                 /\ pos = U32(call.before.lo + call.n.lo)
            ELSE call.err = ErrEOF /\ pc # "Panic"

\* C16: seek(p) succeeds and sets the cursor to p for every p up to the
\* buffer length, and fails with SeekOutOfRange for every p beyond it.
C16_SeekContract ==
    call.op = "seek" =>
        IF LeU32(call.n, U32(DataLen))
        THEN call.err = NoErr /\ pos = call.n
        ELSE call.err = ErrSeek

\* C19: a read, readBytes or seek that returns an error leaves the cursor
\* where it was, and no call changes a byte of the buffer.
C19_FailedCallChangesNothing ==
    [][ /\ data' = data
        /\ (call'.op \in {"read", "readBytes", "seek"} /\ call'.err \in {ErrEOF, ErrSeek})
               => pos' = pos ]_vars

C19_Witness ==
    /\ call.op = "readBytes"
    /\ call.err = ErrEOF
    /\ pos = call.before
    /\ pos.lo > 0

-----------------------------------------------------------------------------
(* two runs of main at once, each over its own buffer with its own reader: *)
(* one run is in the variables, the other waits in the variable other, and *)
(* the scheduler may change which of the two runs between any two steps    *)

\* the variables of the run of main that is running, as a record
Cur ==
    [data |-> data, pos |-> pos, pc |-> pc, header |-> header, flags |-> flags,
     linkInfo |-> linkInfo, strings |-> strings, err |-> err, errs |-> errs,
     li |-> li, output |-> output, seen |-> seen]

\* r := NewBinaryReader(d), with main's variables at their zero values
NewRun(d) ==
    [data |-> d, pos |-> U32(0), pc |-> "Header", header |-> Nil, flags |-> U32(0),
     linkInfo |-> Nil, strings |-> <<>>, err |-> NoErr, errs |-> {},
     li |-> NoLinkInfo, output |-> "none", seen |-> {}]

\* where a run of main has ended: after the report, after the message of a
\* header error, or in a panic
Ended == {"Done", "Error", "Panic"}

failedIn(s, e, stage) == IF e # NoErr THEN s.errs \cup {stage} ELSE s.errs

\* one step of main on a run held as a record: the statement at s.pc
mainStep(bits, s) ==
    CASE s.pc = "Header" ->
           LET r == parseHeader(bits, s.data, s.pos)
           IN  IF r.err = NoErr
               THEN [s EXCEPT !.pos = r.pos, !.err = r.err, !.header = r.h,
                              !.flags = r.flags, !.pc = "IDList"]
               ELSE [s EXCEPT !.pos = r.pos, !.err = r.err,
                              !.errs = failedIn(s, r.err, "Header"),
                              !.pc = IF r.err = Panic THEN "Panic" ELSE "Error",
                              !.output = IF r.err = Panic THEN @ ELSE "parse error"]
      [] s.pc = "IDList" ->
           IF Bit(s.flags, 0)
           THEN LET r == parseLinkTargetIDList(bits, s.data, s.pos)
                IN  [s EXCEPT !.pos = r.pos, !.errs = failedIn(s, r.err, "IDList"),
                               !.pc = IF r.err = Panic THEN "Panic" ELSE "LinkInfo"]
           ELSE [s EXCEPT !.pc = "LinkInfo"]
      [] s.pc = "LinkInfo" ->
           IF Bit(s.flags, 1)
           THEN LET r == parseLinkInfo(bits, s.data, s.pos)
                IN  [s EXCEPT !.pos = r.pos, !.errs = failedIn(s, r.err, "LinkInfo"),
                               !.linkInfo = r.out,
                               !.li = [start |-> r.start, size |-> r.size],
                               !.pc = IF r.err = Panic THEN "Panic" ELSE "Name"]
           ELSE [s EXCEPT !.pc = "Name"]
      [] \E i \in DOMAIN StringNames : s.pc = StringNames[i] ->
           LET i == CHOOSE j \in DOMAIN StringNames : s.pc = StringNames[j]
           IN  IF Bit(s.flags, i + 1)
               THEN LET r == readString(bits, s.data, s.pos, Bit(s.flags, 7))
                    IN  IF r.err = Panic
                        THEN [s EXCEPT !.pos = r.pos,
                                       !.errs = failedIn(s, r.err, StringNames[i]),
                                       !.pc = "Panic"]
                        ELSE [s EXCEPT !.pos = r.pos,
                                       !.errs = failedIn(s, r.err, StringNames[i]),
                                       !.strings = MapSet(@, StringNames[i], r.val),
                                       !.pc = AfterString(i)]
               ELSE [s EXCEPT !.pc = AfterString(i)]
      [] s.pc = "ExtraData" ->
           LET r == skipExtraDataPass(bits, s.data, s.pos)
           IN  [s EXCEPT !.pos = r.pos, !.errs = failedIn(s, r.err, "ExtraData"),
                          !.seen = @ \cup {s.pos},
                          !.pc = IF r.err = Panic THEN "Panic"
                                 ELSE IF r.next = "loop" THEN "ExtraData" ELSE "Report"]
      [] s.pc = "Report" -> [s EXCEPT !.output = "report", !.pc = "Done"]
      [] OTHER -> s

\* main run from s with nothing else running: the run at its end, or at the
\* pass of skipExtraData's loop that begins where an earlier pass began (from
\* there the loop never ends)
RECURSIVE mainFrom(_, _)
mainFrom(bits, s) ==
    IF s.pc \in Ended THEN s
    ELSE IF s.pc = "ExtraData" /\ s.pos \in s.seen THEN s
    ELSE mainFrom(bits, mainStep(bits, s))

\* main on the file d, alone
main(bits, d) == mainFrom(bits, NewRun(d))

SwitchSharingReader ==
    /\ other # NoRun
    /\ pc' = other.pc
    /\ header' = other.header
    /\ flags' = other.flags
    /\ linkInfo' = other.linkInfo
    /\ strings' = other.strings
    /\ err' = other.err
    /\ errs' = other.errs
    /\ li' = other.li
    /\ output' = other.output
    /\ seen' = other.seen
    /\ other' = [Cur EXCEPT !.data = other.data, !.pos = other.pos]
    /\ UNCHANGED <<data, pos, intBits, signature, call, vd, converted>>

\* the scheduler stops the run that is running and resumes the other one;
\* each has its own r := NewBinaryReader(data) and its own locals
Switch ==
    /\ other # NoRun
    /\ data' = other.data
    /\ pos' = other.pos
    /\ pc' = other.pc
    /\ header' = other.header
    /\ flags' = other.flags
    /\ linkInfo' = other.linkInfo
    /\ strings' = other.strings
    /\ err' = other.err
    /\ errs' = other.errs
    /\ li' = other.li
    /\ output' = other.output
    /\ seen' = other.seen
    /\ other' = Cur
    /\ UNCHANGED <<intBits, signature, call, vd, converted>>

\* the files of the two runs: the smallest link, a link with every section,
\* links with string fields, a wrong class identifier, a file cut short, a
\* block of size 4 (skipExtraData never returns), a LinkInfo offset of 2^31
PairInputs ==
    { ValidHeader(0) \o <<0, 0, 0, 0>>,
      ValidHeader(255) \o <<2, 0, 0, 0>> \o LinkInfoBytes(U32(33), U32(28), U32(31))
          \o <<3, 0, 65, 0, 66, 0, 0, 0>> \o <<0, 0, 0, 0>>,
      ValidHeader(12) \o <<2, 0, 65, 0>> \o <<2, 0, 65, 0>> \o <<0, 0, 0, 0>>,
      HeaderBytes(HeaderSize, BadCLSID, 0, SomeTime, SomeTime, Zeros(8)) \o <<0, 0, 0, 0>>,
      Prefix(ValidHeader(0), 40),
      ValidHeader(0) \o <<4, 0, 0, 0>>,
      ValidHeader(2) \o LinkInfoBytes(U32(33), [hi |-> 32768, lo |-> 0], U32(0)) }

PairInit ==
    /\ data \in PairInputs
    /\ other \in { NewRun(d) : d \in PairInputs }
    /\ intBits \in {32, 64}
    /\ pos = U32(0)
    /\ pc = "Header"
    /\ header = Nil
    /\ flags = U32(0)
    /\ linkInfo = Nil
    /\ strings = <<>>
    /\ err = NoErr
    /\ errs = {}
    /\ li = NoLinkInfo
    /\ output = "none"
    /\ seen = {}
    /\ signature = lnkCLSID
    /\ call = NoCall
    /\ vd = NoValue
    /\ converted = NotConverted

PairNext ==
    \/ ParseHeaderStep
    \/ IDListStep
    \/ LinkInfoStep
    \/ \E i \in 1..Len(StringNames) : StringStep(i)
    \/ SkipExtraDataStep
    \/ ReportStep
    \/ Switch

PairSpec == PairInit /\ [][PairNext]_vars

\* C18: two decodes on separate buffers with separate readers, their steps
\* interleaved in any order, each end with the result and the cursor that
\* main has when it runs alone on the same file, and the one thing they
\* share, the class identifier, is never written.
C18_InterleavedAsAlone ==
    /\ signature = lnkCLSID
    /\ \A s \in {Cur, other} : s.pc \in Ended => s = main(intBits, s.data)

\* both runs have ended, one with a report and one with a header error
C18_Witness ==
    /\ pc = "Done"
    /\ other.pc = "Error"
    /\ DOMAIN strings = {"Name", "RelativePath"}
    /\ other.pos = U32(20)

-----------------------------------------------------------------------------
(* hivehunt (src/hivehunt/main.go): convertValue.  A Go string is the      *)
(* sequence of its bytes; the value returned is a record of its dynamic    *)
(* type and its content                                                    *)

\* the longest Data of a value
MaxData == 3

\* the code points of the bytes 0x80..0xBF in charmap.Windows1251; 0x98 is
\* not assigned and decodes to U+FFFD
Win1251High ==
    << 1026, 1027, 8218, 1107, 8222, 8230, 8224, 8225,
       8364, 8240, 1033, 8249, 1034, 1036, 1035, 1039,
       1106, 8216, 8217, 8220, 8221, 8226, 8211, 8212,
       65533, 8482, 1113, 8250, 1114, 1116, 1115, 1119,
       160, 1038, 1118, 1032, 164, 1168, 166, 167,
       1025, 169, 1028, 171, 172, 173, 174, 1031,
       176, 177, 1030, 1110, 1169, 181, 182, 183,
       1105, 8470, 1108, 187, 1112, 1029, 1109, 1111 >>

\* the code point of a byte in Windows-1251: ASCII as it is, 0xC0..0xFF the
\* letters from U+0410 on
Win1251Rune(b) ==
    IF b < 128 THEN b
    ELSE IF b < 192 THEN Win1251High[b - 127]
    ELSE 1040 + (b - 192)

\* the UTF-8 bytes of a code point below 2^16
EncodeRune(u) ==
    IF u < 128 THEN <<u>>
    ELSE IF u < 2048 THEN <<192 + (u \div 64), 128 + (u % 64)>>
    ELSE <<224 + (u \div 4096), 128 + ((u \div 64) % 64), 128 + (u % 64)>>

\* decodeWin1251(data); the decoder of a charmap returns no error
RECURSIVE decodeWin1251(_)
decodeWin1251(b) ==
    IF b = <<>> THEN <<>>
    ELSE EncodeRune(Win1251Rune(Head(b))) \o decodeWin1251(Tail(b))

\* cleanString(s): strings.TrimRight(s, "\u0000")
cleanString(s) == TrimRight(s)

\* the characters of base64.StdEncoding
Base64Char(i) ==
    IF i < 26 THEN 65 + i
    ELSE IF i < 52 THEN 97 + (i - 26)
    ELSE IF i < 62 THEN 48 + (i - 52)
    ELSE IF i = 62 THEN 43 ELSE 47

\* base64.StdEncoding.EncodeToString(b), padded with '='
RECURSIVE EncodeToString(_)
EncodeToString(b) ==
    IF b = <<>> THEN <<>>
    ELSE IF Len(b) = 1
    THEN <<Base64Char(b[1] \div 4), Base64Char((b[1] % 4) * 16), 61, 61>>
    ELSE IF Len(b) = 2
    THEN <<Base64Char(b[1] \div 4), Base64Char((b[1] % 4) * 16 + b[2] \div 16),
           Base64Char((b[2] % 16) * 4), 61>>
    ELSE <<Base64Char(b[1] \div 4), Base64Char((b[1] % 4) * 16 + b[2] \div 16),
           Base64Char((b[2] % 16) * 4 + b[3] \div 64), Base64Char(b[3] % 64)>>
         \o EncodeToString(SubSeq(b, 4, Len(b)))

\* the values convertValue returns, by their dynamic type
GoString(s) == [kind |-> "string", val |-> s]
GoStrings(l) == [kind |-> "[]string", val |-> l]
GoUint64(n) == [kind |-> "uint64", val |-> n]
GoNil == [kind |-> "nil"]

convertValueNumberFirst(v) ==
    IF v.String # <<>> THEN GoString(cleanString(v.String))
    ELSE IF v.Uint64 # 0 THEN GoUint64(v.Uint64)
    ELSE IF Len(v.MultiSz) > 0
    THEN GoStrings([i \in 1..Len(v.MultiSz) |-> cleanString(v.MultiSz[i])])
    ELSE IF Len(v.Data) > 0
    THEN LET decoded == cleanString(decodeWin1251(v.Data))
         IN  IF decoded # <<>> /\ Len(decoded) >= Len(v.Data) \div 2
             THEN GoString(decoded)
             ELSE GoString(EncodeToString(v.Data))
    ELSE GoNil

\* convertValue(val), from vd := val.ValueData()
convertValue(v) ==
    IF v.String # <<>> THEN GoString(cleanString(v.String))
    ELSE IF Len(v.MultiSz) > 0
    THEN GoStrings([i \in 1..Len(v.MultiSz) |-> cleanString(v.MultiSz[i])])
    ELSE IF v.Uint64 # 0 THEN GoUint64(v.Uint64)
    ELSE IF Len(v.Data) > 0
    THEN LET decoded == cleanString(decodeWin1251(v.Data))
         IN  IF decoded # <<>> /\ Len(decoded) >= Len(v.Data) \div 2
             THEN GoString(decoded)
             ELSE GoString(EncodeToString(v.Data))
    ELSE GoNil

\* bytes of Data: NUL, 'A', 0x98 (not assigned), 0xC0 (a Cyrillic letter)
DataBytes == {0, 65, 152, 192}

RECURSIVE BytesUpTo(_)
BytesUpTo(n) ==
    IF n = 0 THEN { <<>> }
    ELSE LET shorter == BytesUpTo(n - 1)
         IN  shorter \cup { s \o <<b>> : s \in shorter, b \in DataBytes }

\* the ValueData of the values: every choice of its four fields
ValueDatas ==
    [ String : { <<>>, <<65>>, <<65, 0>>, <<0>> },
      MultiSz : { <<>>, << <<65, 0>> >>, << <<66>>, <<>> >> },
      Uint64 : {0, 7},
      Data : BytesUpTo(MaxData) ]

notHive ==
    <<data, pos, intBits, pc, header, flags, linkInfo, strings, err, errs, li, output,
      seen, signature, call, other>>

HiveInit ==
    /\ vd \in ValueDatas
    /\ converted = NotConverted
    /\ data = <<>>
    /\ intBits = 64
    /\ pos = U32(0)
    /\ pc = "convertValue"
    /\ header = Nil
    /\ flags = U32(0)
    /\ linkInfo = Nil
    /\ strings = <<>>
    /\ err = NoErr
    /\ errs = {}
    /\ li = NoLinkInfo
    /\ output = "none"
    /\ seen = {}
    /\ signature = lnkCLSID
    /\ call = NoCall
    /\ other = NoRun

\* Data: convertValue(&val)
ConvertStep ==
    /\ pc = "convertValue"
    /\ converted = NotConverted
    /\ converted' = convertValue(vd)
    /\ UNCHANGED vd
    /\ UNCHANGED notHive

HiveNext == ConvertStep

HiveSpec == HiveInit /\ [][HiveNext]_vars

\* the Windows-1251 decoding of Data, NUL-trimmed
DecodedData == StripNul(decodeWin1251(vd.Data))

\* what the precedence rule gives for vd, when longEnough says whether the
\* decoding of Data is long enough to be taken
ByPrecedence(longEnough) ==
    IF vd.String # <<>> THEN GoString(StripNul(vd.String))
    ELSE IF vd.MultiSz # <<>>
    THEN GoStrings([i \in DOMAIN vd.MultiSz |-> StripNul(vd.MultiSz[i])])
    ELSE IF vd.Uint64 # 0 THEN GoUint64(vd.Uint64)
    ELSE IF vd.Data # <<>>
    THEN IF DecodedData # <<>> /\ longEnough
         THEN GoString(DecodedData)
         ELSE GoString(EncodeToString(vd.Data))
    ELSE GoNil

\* C20 as stated: the decoding of Data is taken when it is non-empty and at
\* least half as long as Data.
C20_HalfAsLong ==
    converted # NotConverted =>
        converted = ByPrecedence(2 * Len(DecodedData) >= Len(vd.Data))

\* C20: convertValue returns the NUL-trimmed String if String is non-empty;
\* else the NUL-trimmed MultiSz entries if there are any; else Uint64 if it
\* is not 0; else, if Data is non-empty, its NUL-trimmed Windows-1251
\* decoding when that is non-empty and has at least len(Data)/2 bytes, the
\* quotient rounded down and the decoding counted in its UTF-8 bytes, and
\* otherwise the base64 of Data; else nil.
C20_Precedence ==
    converted # NotConverted =>
        converted = ByPrecedence(Len(DecodedData) >= Len(vd.Data) \div 2)

\* Data of three bytes whose decoding has one byte, which is taken
C20_Witness ==
    /\ vd = [String |-> <<>>, MultiSz |-> <<>>, Uint64 |-> 0, Data |-> <<65, 0, 0>>]
    /\ converted = GoString(<<65>>)

=============================================================================
